---- MODULE Spec2Model ----
(***************************************************************************)
(* Model of src/main.py: YouTubeAudioDownloaderBot.                        *)
(*                                                                         *)
(* The bot is a python-telegram-bot Application holding one                *)
(* ConversationHandler.  The Application is built with the library's       *)
(* defaults (main.py:344), so updates are processed one after the other    *)
(* and every handler runs to completion before the next update is looked   *)
(* at: each handler is one atomic action.  The external collaborators      *)
(* (Telegram, yt-dlp, the file system, SQLite) are nondeterministic: every *)
(* call that can raise is given both outcomes.                             *)
(*                                                                         *)
(* Conversations are keyed by (chat, user); the model has one private chat *)
(* per user.  Inline keyboards of earlier messages stay in the chat (also  *)
(* across restarts of the process), so a callback query with any callback  *)
(* data the bot ever offers can arrive in any conversation state.          *)
(*                                                                         *)
(* Two videos stand for the two kinds of artifact: the fetch of "a" writes *)
(* a 3 MB mp3, the fetch of "b" a 60 MB one (see ArtifactMb).              *)
(***************************************************************************)
EXTENDS Integers, Sequences, FiniteSets, TLC

VARIABLES
    conv,        \* ConversationHandler state per user: END (no conversation), SEARCH_QUERY, SELECT_RESULT
    user_data,   \* context.user_data[u]['search_results'] (<<>> when the key is unset)
    users,       \* table users: one row per user id
    downloads,   \* table downloads, in insertion (autoincrement) order
    disk,        \* DOWNLOAD_DIR: the video ids whose file '<video id>.mp3' exists
    now,         \* datetime.now(), in seconds
    offered,     \* history: the entry list that the user's own last search returned and stored
    out,         \* what the handler of the update being processed did (NoOut between updates)
    tracking,    \* TRUE when callback queries come only from buttons the bot has sent (SpecButtons)
    kb,          \* history, when tracking: the entry lists whose results keyboard the user can still press
    pressed,     \* history, when tracking: the entry shown on the button of the update being processed
    used         \* history, when tracking: a fetch was started from the list the user's last search stored

vars == <<conv, user_data, users, downloads, disk, now, offered, out,
          tracking, kb, pressed, used>>

----------------------------------------------------------------------------
(* Bounds of the model *)

MaxDownloads == 2     \* rows of table downloads
MaxIndex == 2         \* largest index carried by a select_video_<i> button
MaxTime == 40         \* the clock stops here
TickSeconds == 20     \* granularity of the clock

Users == {"A", "B"}
Videos == {"a", "b"}
\* MB of the mp3 that the fetch of a video produces: "a" gives the 3 MB artifact,
\* "b" the 60 MB one
ArtifactMb(v) == IF v = "a" THEN 3 ELSE 60

(* Program constants *)

SEARCH_QUERY == 0
SELECT_RESULT == 1
END == -1
MAX_FILE_SIZE_MB == 50
MAX_SEARCH_RESULTS == 5
RATE_LIMIT_SECONDS == 30

NoVideo == "none"

----------------------------------------------------------------------------
(* Inputs *)

\* callback_data of the buttons the bot builds (main.py:162-166, 260, 263)
Cb(tag, idx) == [tag |-> tag, idx |-> idx]
CallbackData ==
    {Cb(t, 0) : t \in {"search", "help", "stats", "cancel"}}
        \cup {Cb("select_video_", i) : i \in 0..MaxIndex}

\* entry lists the search 'ytsearch<MAX_SEARCH_RESULTS>:<query>' can return:
\* distinct videos, in any order
EntryLists ==
    {s \in UNION {[1..n -> Videos] : n \in 0..Cardinality(Videos)} :
        /\ Len(s) <= MAX_SEARCH_RESULTS
        /\ \A i, j \in DOMAIN s : i # j => s[i] # s[j]}

\* results of ydl.extract_info(..., download=False)
SearchResults ==
    {[kind |-> k, entries |-> <<>>] : k \in {"raise", "None", "no_entries_key"}}
        \cup {[kind |-> "entries", entries |-> e] : e \in EntryLists}

\* results of ydl.extract_info(video['webpage_url'], download=True) under ydl_opts:
\* "raise": DownloadError (ignoreerrors is False); "skipped": the source is larger
\* than max_filesize, the library gives the download up without raising and
\* writes no file; "ok": '<id>.mp3' is written.  The cap is checked against the
\* announced length of the source stream only, so a video with a large source is
\* either skipped or, when no length is announced, fetched in full.
FetchResults(v) ==
    IF ArtifactMb(v) > MAX_FILE_SIZE_MB THEN {"raise", "skipped", "ok"} ELSE {"raise", "ok"}

\* where _log_user_download raises ("none": it does not)
LogFailures == {"none", "hash", "upsert", "insert", "commit"}

----------------------------------------------------------------------------
(* Persistence: tables users and downloads (main.py:80-109) *)

NoRow == [present |-> FALSE, total_downloads |-> 0, join_date |-> 0, last_download_date |-> 0]

\* INSERT OR REPLACE INTO users ... COALESCE((SELECT total_downloads + 1 ...), 1)
UpsertUser(tbl, u, t) ==
    [tbl EXCEPT ![u] =
        [present |-> TRUE,
         total_downloads |-> IF @.present THEN @.total_downloads + 1 ELSE 1,
         join_date |-> t,
         last_download_date |-> t]]

\* INSERT INTO downloads (user_id, video_id, title, download_date, file_hash)
InsertDownload(tbl, u, video, h) ==
    Append(tbl, [user_id |-> u, video_id |-> video, file_hash |-> h])

\* a with-block that commits what was written before the exception
RollbackKeepsWrites(before, tx) == tx

\* 'with sqlite3.connect(...) as conn': an exception inside the block rolls the
\* open transaction back
Rollback(before, tx) == before

\* the bytes of the file '<video>.mp3' (0: there is no such file)
FileBytes(d, path) == IF path \in d THEN ArtifactMb(path) * 7 + 1 ELSE 0

\* hashlib.md5 of the bytes (a stand-in digest: deterministic, not the identity)
Md5(bytes) == (bytes * 37 + 11) % 997

\* a digest taken of the file's name instead of its bytes
CalculateFileHashOfName(d, path) == Md5(ArtifactMb(path))

\* _calculate_file_hash(file_path): digest of what is on disk at file_path
CalculateFileHash(d, path) == Md5(FileBytes(d, path))

\* _log_user_download(user, video_info, file_path), raising at `fail`
LogUserDownload(db, u, video, d, t, fail) ==
    LET h   == CalculateFileHash(d, video)
        tx1 == [users |-> UpsertUser(db.users, u, t), downloads |-> db.downloads]
        tx2 == [users |-> tx1.users, downloads |-> InsertDownload(tx1.downloads, u, video, h)]
    IN  CASE fail = "hash"   -> db
          [] fail = "upsert" -> Rollback(db, db)
          [] fail = "insert" -> Rollback(db, tx1)
          [] fail = "commit" -> Rollback(db, tx2)
          [] OTHER           -> tx2

\* SELECT COUNT(*) FROM downloads WHERE user_id = ?
CountDownloads(tbl, u) == Cardinality({i \in DOMAIN tbl : tbl[i].user_id = u})

----------------------------------------------------------------------------
(* What a handler did.  ret is the handler's return value: a conversation    *)
(* state, END, or None; when an exception leaves the handler (escaped) the   *)
(* ConversationHandler keeps the conversation state as it was.              *)

None == -2

\* user, handler: who sent the update and the handler that took it ("" when none did)
\* stage:   the conversation state the update arrived in
\* data:    the callback data (or /start, /cancel, text)
\* reply:   the last message shown to the user ("" when nothing was shown)
\* found:   the number of entries the search returned (-1: no search, or it raised)
\* fetch:   the video whose URL the fetch was invoked with (NoVideo: not invoked)
\* got:     what the fetch did ("" when not invoked)
\* sent:    the bytes delivered by send_audio (0: nothing was delivered)
\* log:     "" when _log_user_download was not called, "ok" when it returned,
\*          else the place where it raised
\* tg:      a Telegram call of the handler raised
\* escaped: an exception left the handler
Out(u, h, stage, data, reply, found, fetch, got, sent, log, tg, escaped) ==
    [user |-> u, handler |-> h, stage |-> stage, data |-> data, reply |-> reply,
     found |-> found, fetch |-> fetch, got |-> got, sent |-> sent, log |-> log,
     tg |-> tg, escaped |-> escaped]

NoData == Cb("", 0)
NoOut == Out("A", "", END, NoData, "", -1, NoVideo, "", 0, "", FALSE, FALSE)

\* ConversationHandler._update_state: None and an escaped exception keep the
\* state, any other return value becomes the state (END ends the conversation)
UpdateState(old, ret, escaped) ==
    IF escaped \/ ret = None THEN old ELSE ret

\* the results kept in one attribute of the bot instead of per user
StoreResultsShared(ud, u, entries) == [v \in DOMAIN ud |-> entries]

\* context.user_data['search_results'] = search_results['entries']
StoreResults(ud, u, entries) == [ud EXCEPT ![u] = entries]

\* re.match(r'select_video_(\d+)', query.data)
Match(data) == data.tag = "select_video_"
Index(data) == data.idx

----------------------------------------------------------------------------
(* search_audio (main.py:232-283).  failAt is the line of the Telegram call  *)
(* that raises (0: none does), fail282 whether the reply of the except       *)
(* block raises too.                                                        *)

SearchFailPoints == {0, 237, 248, 251, 268}

search_audio(u, sr, failAt, fail282) ==
    LET R(ret, ud, stored, reply, found, tg, escaped) ==
            [ret |-> ret, user_data |-> ud, stored |-> stored, reply |-> reply,
             found |-> found, tg |-> tg, escaped |-> escaped]
        Except(ud, stored, found, tg) ==
            IF fail282 THEN R(None, ud, stored, "", found, TRUE, TRUE)
                       ELSE R(END, ud, stored, "SearchError", found, tg, FALSE)
        n == Len(sr.entries)
        new == StoreResults(user_data, u, sr.entries)
    IN  IF failAt = 237 THEN R(None, user_data, FALSE, "", -1, TRUE, TRUE)
        ELSE IF sr.kind = "raise" THEN Except(user_data, FALSE, -1, FALSE)
        ELSE IF failAt = 248 THEN Except(user_data, FALSE, n, TRUE)
        ELSE IF sr.kind \in {"None", "no_entries_key"} THEN
            IF failAt = 251 THEN Except(user_data, FALSE, n, TRUE)
            ELSE R(END, user_data, FALSE, "NoResults", n, FALSE, FALSE)
        ELSE IF failAt = 268 THEN Except(new, TRUE, n, TRUE)
        ELSE R(SELECT_RESULT, new, TRUE, "Results", n, FALSE, FALSE)

----------------------------------------------------------------------------
\* the selection names an entry of the stored list (main.py:296-306)
Valid(u, data) == Match(data) /\ Index(data) < Len(user_data[u])

(* select_and_download (main.py:285-340).  f is what the fetch does, failAt  *)
(* the line of the Telegram call that raises (0: none), fail339 whether the  *)
(* reply of the except block raises too, logFail where _log_user_download    *)
(* raises.                                                                  *)

SelectFailPoints == {0, 288, 291, 298, 305, 309, 318, 333}

select_and_download(u, data, f, failAt, fail339, logFail) ==
    LET db0 == [users |-> users, downloads |-> downloads]
        R(ret, db, d, reply, fetch, got, sent, log, tg, escaped) ==
            [ret |-> ret, db |-> db, disk |-> d, reply |-> reply, fetch |-> fetch,
             got |-> got, sent |-> sent, log |-> log, tg |-> tg, escaped |-> escaped]
        Except(db, d, fetch, got, sent, log, tg) ==
            IF fail339 THEN R(None, db, d, "", fetch, got, sent, log, TRUE, TRUE)
                       ELSE R(END, db, d, "Error", fetch, got, sent, log, tg, FALSE)
        search_results == user_data[u]
        index == Index(data)
        video == search_results[index + 1]
        \* ydl.extract_info(..., download=True)
        disk1 == IF f = "ok" THEN disk \cup {video} ELSE disk
        bytes == FileBytes(disk1, video)
        db1   == LogUserDownload(db0, u, video, disk1, now, logFail)
        \* os.remove(file_path)
        disk2 == disk1 \ {video}
    IN  IF failAt = 288 THEN R(None, db0, disk, "", NoVideo, "", 0, "", TRUE, TRUE)
        ELSE IF data.tag = "cancel" THEN
            IF failAt = 291 THEN R(None, db0, disk, "", NoVideo, "", 0, "", TRUE, TRUE)
            ELSE R(END, db0, disk, "Cancelled", NoVideo, "", 0, "", FALSE, FALSE)
        ELSE IF ~Match(data) THEN
            IF failAt = 298 THEN Except(db0, disk, NoVideo, "", 0, "", TRUE)
            ELSE R(END, db0, disk, "InvalidSelection", NoVideo, "", 0, "", FALSE, FALSE)
        ELSE IF index >= Len(search_results) THEN
            IF failAt = 305 THEN Except(db0, disk, NoVideo, "", 0, "", TRUE)
            ELSE R(END, db0, disk, "NotFound", NoVideo, "", 0, "", FALSE, FALSE)
        ELSE IF failAt = 309 THEN Except(db0, disk, NoVideo, "", 0, "", TRUE)
        ELSE IF f = "raise" THEN Except(db0, disk1, video, f, 0, "", FALSE)
        \* open(file_path, 'rb')
        ELSE IF video \notin disk1 THEN Except(db0, disk1, video, f, 0, "", FALSE)
        \* send_audio: the Bot API takes no upload above 50 MB
        ELSE IF ArtifactMb(video) > MAX_FILE_SIZE_MB THEN
            Except(db0, disk1, video, f, 0, "", FALSE)
        ELSE IF failAt = 318 THEN Except(db0, disk1, video, f, 0, "", TRUE)
        ELSE IF logFail # "none" THEN Except(db1, disk1, video, f, bytes, logFail, FALSE)
        ELSE IF failAt = 333 THEN Except(db1, disk2, video, f, bytes, "ok", TRUE)
        ELSE R(END, db1, disk2, "Success", video, f, bytes, "ok", FALSE, FALSE)

----------------------------------------------------------------------------
(* callback_handler (main.py:179-230) and start_command (main.py:158-177).   *)
(* tgFail: a Telegram call of the handler raises.                           *)

\* an entry point that takes a selection up again when results are still stored
callback_handler_resumes(u, data, tgFail) ==
    LET R(ret, reply) == [ret |-> ret, reply |-> reply, escaped |-> tgFail]
    IN  IF tgFail THEN R(None, "")
        ELSE IF data.tag = "search" THEN R(SEARCH_QUERY, "Prompt")
        ELSE IF data.tag = "help" THEN R(None, "Help")
        ELSE IF data.tag = "stats" THEN
            R(None, IF users[u].present THEN "Stats" ELSE "NoStats")
        ELSE IF Match(data) /\ user_data[u] # <<>> THEN R(SELECT_RESULT, "")
        ELSE R(None, "")

callback_handler(u, data, tgFail) ==
    LET R(ret, reply) == [ret |-> ret, reply |-> reply, escaped |-> tgFail]
    IN  IF tgFail THEN R(None, "")
        ELSE IF data.tag = "search" THEN R(SEARCH_QUERY, "Prompt")
        ELSE IF data.tag = "help" THEN R(None, "Help")
        ELSE IF data.tag = "stats" THEN
            R(None, IF users[u].present THEN "Stats" ELSE "NoStats")
        ELSE R(None, "")

start_command(u, tgFail) ==
    [ret |-> None, reply |-> IF tgFail THEN "" ELSE "Menu", escaped |-> tgFail]

----------------------------------------------------------------------------
(* The state machine: ConversationHandler of setup_bot (main.py:347-361)     *)

\* the buttons of the menu that start_command sends (main.py:160-169)
MenuButtons == {Cb("search", 0), Cb("help", 0), Cb("stats", 0)}

\* the buttons of the results message that search_audio sends for the entry
\* list L (main.py:255-264)
Buttons(L) == {Cb("select_video_", i - 1) : i \in 1..Len(L)} \cup {Cb("cancel", 0)}

\* the entry that the button carrying data shows in the keyboard of list L
Under(L, data) == IF Match(data) THEN L[Index(data) + 1] ELSE NoVideo

\* the callback query with this data comes from a button in the chat of u: a menu
\* button, or a button of a results keyboard L that is still there.  A results
\* message loses its keyboard when the handler edits it (edit_message_text
\* without reply_markup), unless the user had pressed the button again before
\* the edit, so that one more callback query of that keyboard is on its way.
Press(u, data, edited) ==
    IF ~tracking \/ data \notin CallbackData
    THEN UNCHANGED <<kb, pressed>>
    ELSE \/ /\ data \in MenuButtons
            /\ UNCHANGED <<kb, pressed>>
         \/ \E L \in kb[u], again \in BOOLEAN :
              /\ data \in Buttons(L)
              /\ pressed' = Under(L, data)
              /\ kb' = IF edited /\ ~again THEN [kb EXCEPT ![u] = @ \ {L}] ELSE kb

Init ==
    /\ conv = [u \in Users |-> END]
    /\ user_data = [u \in Users |-> <<>>]
    /\ users = [u \in Users |-> NoRow]
    /\ downloads = <<>>
    /\ disk = {}
    /\ now = 0
    /\ offered = [u \in Users |-> <<>>]
    /\ out = NoOut
    /\ tracking = FALSE
    /\ kb = [u \in Users |-> {}]
    /\ pressed = NoVideo
    /\ used = [u \in Users |-> FALSE]

\* entry point CommandHandler('start', start_command): no conversation yet
StartCommand(u) ==
    /\ out = NoOut
    /\ conv[u] = END
    /\ \E tgFail \in BOOLEAN :
         LET r == start_command(u, tgFail) IN
           /\ conv' = [conv EXCEPT ![u] = UpdateState(@, r.ret, r.escaped)]
           /\ out' = Out(u, "start_command", conv[u], Cb("/start", 0), r.reply,
                         -1, NoVideo, "", 0, "", tgFail, r.escaped)
    /\ UNCHANGED <<user_data, users, downloads, disk, now, offered>>
    /\ UNCHANGED <<tracking, kb, pressed, used>>

\* fallback CommandHandler('cancel', start_command): inside a conversation
CancelCommand(u) ==
    /\ out = NoOut
    /\ conv[u] # END
    /\ \E tgFail \in BOOLEAN :
         LET r == start_command(u, tgFail) IN
           /\ conv' = [conv EXCEPT ![u] = UpdateState(@, r.ret, r.escaped)]
           /\ out' = Out(u, "start_command", conv[u], Cb("/cancel", 0), r.reply,
                         -1, NoVideo, "", 0, "", tgFail, r.escaped)
    /\ UNCHANGED <<user_data, users, downloads, disk, now, offered>>
    /\ UNCHANGED <<tracking, kb, pressed, used>>

\* entry point CallbackQueryHandler(callback_handler): no conversation yet
CallbackEntry(u) ==
    /\ out = NoOut
    /\ conv[u] = END
    /\ \E data \in CallbackData, tgFail \in BOOLEAN :
         LET r == callback_handler(u, data, tgFail) IN
           /\ conv' = [conv EXCEPT ![u] = UpdateState(@, r.ret, r.escaped)]
           /\ out' = Out(u, "callback_handler", conv[u], data, r.reply,
                         -1, NoVideo, "", 0, "", tgFail, r.escaped)
           /\ Press(u, data, r.reply # "")
    /\ UNCHANGED <<user_data, users, downloads, disk, now, offered>>
    /\ UNCHANGED <<tracking, used>>

\* state SEARCH_QUERY: MessageHandler(TEXT & ~COMMAND, search_audio)
SearchAudio(u) ==
    /\ out = NoOut
    /\ conv[u] = SEARCH_QUERY
    /\ \E sr \in SearchResults, failAt \in SearchFailPoints, fail282 \in BOOLEAN :
         LET r == search_audio(u, sr, failAt, fail282) IN
           /\ fail282 => r.escaped
           /\ failAt # 0 => r.tg
           /\ conv' = [conv EXCEPT ![u] = UpdateState(@, r.ret, r.escaped)]
           /\ user_data' = r.user_data
           /\ offered' = IF r.stored THEN [offered EXCEPT ![u] = sr.entries] ELSE offered
           /\ out' = Out(u, "search_audio", conv[u], Cb("text", 0), r.reply,
                         r.found, NoVideo, "", 0, "", r.tg, r.escaped)
           /\ kb' = IF tracking /\ r.reply = "Results"
                       THEN [kb EXCEPT ![u] = @ \cup {sr.entries}] ELSE kb
           /\ used' = IF tracking /\ r.stored THEN [used EXCEPT ![u] = FALSE] ELSE used
    /\ UNCHANGED <<users, downloads, disk, now>>
    /\ UNCHANGED <<tracking, pressed>>

\* state SELECT_RESULT: CallbackQueryHandler(select_and_download)
SelectAndDownload(u) ==
    /\ out = NoOut
    /\ conv[u] = SELECT_RESULT
    /\ \E data \in CallbackData, failAt \in SelectFailPoints :
       \E f \in IF Valid(u, data) /\ failAt \in {0, 318, 333}
                THEN FetchResults(user_data[u][Index(data) + 1]) ELSE {"raise"} :
       \E logFail \in IF f = "ok" /\ failAt # 318 THEN LogFailures ELSE {"none"} :
       \E fail339 \in BOOLEAN :
         LET r == select_and_download(u, data, f, failAt, fail339, logFail) IN
           /\ fail339 => r.escaped
           /\ failAt # 0 => r.tg
           /\ Len(r.db.downloads) <= MaxDownloads
           /\ conv' = [conv EXCEPT ![u] = UpdateState(@, r.ret, r.escaped)]
           /\ users' = r.db.users
           /\ downloads' = r.db.downloads
           /\ disk' = r.disk
           /\ out' = Out(u, "select_and_download", conv[u], data, r.reply,
                         -1, r.fetch, r.got, r.sent, r.log, r.tg, r.escaped)
           /\ Press(u, data, r.reply # "" \/ r.fetch # NoVideo)
           /\ used' = IF tracking /\ r.fetch # NoVideo
                         THEN [used EXCEPT ![u] = TRUE] ELSE used
    /\ UNCHANGED <<user_data, now, offered>>
    /\ UNCHANGED tracking

\* an update that no handler of the conversation's state takes is dropped:
\* a callback query in SEARCH_QUERY, a text message outside SEARCH_QUERY,
\* /start inside a conversation, /cancel outside one
IgnoredUpdate(u) ==
    /\ out = NoOut
    /\ \E data \in CallbackData \cup {Cb(t, 0) : t \in {"text", "/start", "/cancel"}} :
         /\ CASE data.tag = "text"    -> conv[u] # SEARCH_QUERY
              [] data.tag = "/start"  -> conv[u] # END
              [] data.tag = "/cancel" -> conv[u] = END
              [] OTHER                -> conv[u] = SEARCH_QUERY
         /\ out' = Out(u, "", conv[u], data, "", -1, NoVideo, "", 0, "", FALSE, FALSE)
         /\ Press(u, data, FALSE)
    /\ UNCHANGED <<conv, user_data, users, downloads, disk, now, offered>>
    /\ UNCHANGED <<tracking, used>>

\* Application.process_update is done with the update; the next one is taken
\* only now (updates are not processed concurrently)
UpdateDone ==
    /\ out # NoOut
    /\ out' = NoOut
    /\ pressed' = NoVideo
    /\ UNCHANGED <<conv, user_data, users, downloads, disk, now, offered>>
    /\ UNCHANGED <<tracking, kb, used>>

\* time passes
Tick ==
    /\ out = NoOut
    /\ now + TickSeconds <= MaxTime
    /\ now' = now + TickSeconds
    /\ UNCHANGED <<conv, user_data, users, downloads, disk, offered, out>>
    /\ UNCHANGED <<tracking, kb, pressed, used>>

Next ==
    \/ \E u \in Users : StartCommand(u)
    \/ \E u \in Users : CancelCommand(u)
    \/ \E u \in Users : CallbackEntry(u)
    \/ \E u \in Users : SearchAudio(u)
    \/ \E u \in Users : SelectAndDownload(u)
    \/ \E u \in Users : IgnoredUpdate(u)
    \/ UpdateDone

Spec == Init /\ [][Next]_vars

\* one user and the clock
NextClock ==
    \/ StartCommand("A")
    \/ CancelCommand("A")
    \/ CallbackEntry("A")
    \/ SearchAudio("A")
    \/ SelectAndDownload("A")
    \/ IgnoredUpdate("A")
    \/ UpdateDone
    \/ Tick

SpecClock == Init /\ [][NextClock]_vars

\* one user whose callback queries come from the buttons the bot has sent
InitButtons ==
    /\ conv = [u \in Users |-> END]
    /\ user_data = [u \in Users |-> <<>>]
    /\ users = [u \in Users |-> NoRow]
    /\ downloads = <<>>
    /\ disk = {}
    /\ now = 0
    /\ offered = [u \in Users |-> <<>>]
    /\ out = NoOut
    /\ tracking = TRUE
    /\ kb = [u \in Users |-> {}]
    /\ pressed = NoVideo
    /\ used = [u \in Users |-> FALSE]

NextButtons ==
    \/ StartCommand("A")
    \/ CancelCommand("A")
    \/ CallbackEntry("A")
    \/ SearchAudio("A")
    \/ SelectAndDownload("A")
    \/ IgnoredUpdate("A")
    \/ UpdateDone

SpecButtons == InitButtons /\ [][NextButtons]_vars

----------------------------------------------------------------------------
(* Properties *)

Select == "select_and_download"

\* C1: for every user the total_downloads counter of the user's row equals the
\* number of rows of table downloads with that user_id; a user without a row has
\* no download rows.
C1_CounterEqualsRecords ==
    \A u \in Users :
        /\ users[u].present => users[u].total_downloads = CountDownloads(downloads, u)
        /\ ~users[u].present => CountDownloads(downloads, u) = 0

\* a recorded download of the user, then an attempt whose record insert raised
\* after the user upsert
C1_Witness ==
    /\ out.handler = Select
    /\ out.log = "insert"
    /\ users[out.user].present
    /\ users[out.user].total_downloads >= 1

\* C2 (as stated): an update carrying a selection whose index is outside the
\* stored candidate list, in whatever conversation state it arrives, is answered
\* with the invalid-selection message and invokes no fetch.
C2_OutOfRangeToldInvalid ==
    (/\ out.data.tag = "select_video_"
     /\ out.data.idx >= Len(user_data[out.user])
     /\ ~out.tg)
        => /\ out.reply \in {"InvalidSelection", "NotFound"}
           /\ out.fetch = NoVideo

\* C3 (as stated): a valid selection made less than RATE_LIMIT_SECONDS after the
\* user's last recorded download is answered RateLimited and invokes no fetch.
C3_SecondAttemptRateLimited ==
    [][\A u \in Users :
        (/\ out = NoOut
         /\ users[u].present
         /\ now - users[u].last_download_date < RATE_LIMIT_SECONDS
         /\ out'.handler = Select
         /\ out'.user = u
         /\ Valid(u, out'.data)
         /\ ~out'.tg)
            => /\ out'.reply = "RateLimited"
               /\ out'.fetch = NoVideo]_vars

\* C4 (as stated): a cancel event (button or command) that arrives in
\* AwaitingQuery or AwaitingSelection leaves the conversation ended, invokes no
\* fetch and does not call the persistence.
C4_CancelEndsConversation ==
    (/\ out.data.tag \in {"cancel", "/cancel"}
     /\ out.stage # END
     /\ ~out.tg)
        => /\ conv[out.user] = END
           /\ out.fetch = NoVideo
           /\ out.log = ""

\* C5: the item fetched for a selection of user U with index i is the i-th entry
\* of the list that U's own last search returned.
C5_SelectionResolvesOwnList ==
    (out.handler = Select /\ out.fetch # NoVideo)
        => /\ out.data.idx < Len(offered[out.user])
           /\ out.fetch = offered[out.user][out.data.idx + 1]

\* both users have searched, the other user's list holds another item at the
\* selected index, and the fetch was invoked
C5_Witness ==
    /\ out.handler = Select
    /\ out.fetch # NoVideo
    /\ \E v \in Users \ {out.user} :
         /\ out.data.idx < Len(offered[v])
         /\ offered[v][out.data.idx + 1] # out.fetch

\* C6 (as stated): a search that returns no entries is answered NoResults and
\* ends the conversation; the conversation enters SELECT_RESULT only with a
\* non-empty stored list.
C6_ZeroEntriesIsNoResults ==
    /\ (out.handler = "search_audio" /\ out.found = 0 /\ ~out.tg)
           => out.reply = "NoResults" /\ conv[out.user] = END
    /\ (out.handler = "search_audio" /\ conv[out.user] = SELECT_RESULT)
           => user_data[out.user] # <<>>

\* C7 (as stated): when the fetch produced an artifact above MAX_FILE_SIZE_MB the
\* user gets the error, nothing is delivered, no record is written, the file is
\* gone and the conversation is ended.
C7_OversizeIsDownloadError ==
    (/\ out.handler = Select
     /\ out.got = "ok"
     /\ ArtifactMb(out.fetch) > MAX_FILE_SIZE_MB
     /\ ~out.tg)
        => /\ out.reply = "Error"
           /\ out.sent = 0
           /\ out.log = ""
           /\ out.fetch \notin disk
           /\ conv[out.user] = END

\* C8 (as stated): when the artifact was delivered and the write to the tables
\* then raised, the user is told Success.
C8_StorageErrorNotSurfaced ==
    (/\ out.handler = Select
     /\ out.sent # 0
     /\ out.log \in {"upsert", "insert", "commit"}
     /\ ~out.tg)
        => out.reply = "Success"

\* C9 (as stated): when the handler has finished, the file that its fetch wrote
\* is not on disk any more.
C9_NoFileLeftBehind ==
    (out.handler = Select /\ out.got = "ok") => out.fetch \notin disk

\* C10: table downloads changes only by appending one row, for an attempt whose
\* fetch wrote the file, whose file was delivered and hashed, and the row's
\* file_hash is the digest of the delivered bytes.
C10_RecordOnlyAfterFetchAndHash ==
    [][downloads' # downloads =>
        /\ out'.handler = Select
        /\ out'.got = "ok"
        /\ out'.sent # 0
        /\ out'.log = "ok"
        /\ downloads' = Append(downloads,
               [user_id |-> out'.user, video_id |-> out'.fetch, file_hash |-> Md5(out'.sent)])]_vars

\* a download was delivered and recorded
C10_Witness ==
    /\ out.handler = Select
    /\ out.log = "ok"
    /\ out.reply = "Success"
    /\ downloads # <<>>
    /\ downloads[Len(downloads)].file_hash = Md5(out.sent)

\* C11 (as stated): the stored candidate list of a user is non-empty only while
\* the user's conversation is in SELECT_RESULT.
C11_CandidatesOnlyWhileSelecting ==
    \A u \in Users : conv[u] # SELECT_RESULT => user_data[u] = <<>>

\* C13: a conversation enters SEARCH_QUERY only from END, by the search button
\* taken by callback_handler, and enters SELECT_RESULT only from SEARCH_QUERY,
\* by search_audio handling a message of that user.
C13_NoDirectIdleToSelection ==
    [][\A u \in Users :
        /\ (conv'[u] = SEARCH_QUERY /\ conv[u] # SEARCH_QUERY)
               => /\ conv[u] = END
                  /\ out'.user = u
                  /\ out'.handler = "callback_handler"
                  /\ out'.data.tag = "search"
        /\ (conv'[u] = SELECT_RESULT /\ conv[u] # SELECT_RESULT)
               => /\ conv[u] = SEARCH_QUERY
                  /\ out'.user = u
                  /\ out'.handler = "search_audio"]_vars

\* a search has moved a conversation from SEARCH_QUERY to SELECT_RESULT while the
\* other user, with results still stored, is outside any conversation
C13_Witness ==
    /\ out.handler = "search_audio"
    /\ out.stage = SEARCH_QUERY
    /\ conv[out.user] = SELECT_RESULT
    /\ \E v \in Users \ {out.user} : conv[v] = END /\ user_data[v] # <<>>

\* C14 (as stated): an error raised while search_audio or select_and_download
\* handles an update does not leave the handler, and the conversation is ended.
C14_ErrorsCaughtAndIdle ==
    (/\ out.handler \in {"search_audio", Select}
     /\ out.tg \/ out.reply \in {"SearchError", "Error"})
        => /\ ~out.escaped
           /\ conv[out.user] = END

\* C16 (as stated): while an update of one user is still being processed by
\* search_audio or select_and_download, an update of another user can be handled.
C16_OtherUserNotBlocked ==
    (out # NoOut /\ out.handler \in {"search_audio", Select})
        => \E v \in Users \ {out.user} :
               ENABLED (\/ StartCommand(v) \/ CancelCommand(v) \/ CallbackEntry(v)
                        \/ SearchAudio(v) \/ SelectAndDownload(v))

\* C17 (as stated): when hashing the file raises, nothing has been delivered and
\* no record is written.
C17_FingerprintBeforeDelivery ==
    (out.handler = Select /\ out.log = "hash" /\ ~out.tg)
        => /\ out.sent = 0
           /\ out.reply = "Error"

\* C18 (as stated): the search button pressed inside a conversation leaves the
\* conversation in SEARCH_QUERY with no stored candidates.
C18_RestartGivesFreshSession ==
    (/\ out.data.tag = "search"
     /\ out.stage \in {SEARCH_QUERY, SELECT_RESULT}
     /\ ~out.tg)
        => /\ conv[out.user] = SEARCH_QUERY
           /\ user_data[out.user] = <<>>

\* C19 (as stated): a step changes only the row of the user whose download is
\* recorded, a change of an existing user row keeps its join_date, and no step
\* changes an existing row of table downloads.
C19_JoinDateKept ==
    [][/\ \A u \in Users :
            users'[u] # users[u]
                => /\ out'.user = u
                   /\ users[u].present => users'[u].join_date = users[u].join_date
       /\ Len(downloads') >= Len(downloads)
       /\ SubSeq(downloads', 1, Len(downloads)) = downloads]_vars

\* C20 (as stated): a help or stats button leaves the conversation state as it
\* was, invokes no fetch and does not call the persistence.
C20_HelpStatsReadOnly ==
    (out.data.tag \in {"help", "stats"} /\ ~out.tg)
        => /\ conv[out.user] = out.stage
           /\ out.fetch = NoVideo
           /\ out.log = ""

\* C12 (as stated): the entry that select_and_download fetches is the entry shown
\* on the button that was pressed.
C12_FetchedIsOffered ==
    (out.handler = Select /\ out.fetch # NoVideo) => out.fetch = pressed

\* C15 (as stated): select_and_download starts a fetch for a user only when no
\* fetch was started yet from the list the user's last search stored.
C15_OneFetchPerList ==
    [][\A u \in Users :
        (/\ out = NoOut
         /\ out'.handler = Select
         /\ out'.user = u
         /\ out'.fetch # NoVideo) => ~used[u]]_vars

====
